---- MODULE Spec2Model ----
(***************************************************************************)
(* A top-to-bottom run of examples/classification/classification_adult     *)
(* .ipynb: one action per code cell, the kernel namespace as the state.    *)
(* Calls into pandas / scikit-learn / cyclic_boosting are modelled by what *)
(* the notebook relies on (column assignment, column drop, ordinal codes); *)
(* what the libraries compute beyond that (the dataset, the fitted model,  *)
(* the probabilities, whether a call raises) is a nondeterministic input.  *)
(***************************************************************************)
EXTENDS Integers, Sequences, FiniteSets, TLC

\* ------------------------------------------------------------------ bounds

\* number of rows of the loaded dataset
NumRows == 2
\* number of distinct raw category values a categorical column may hold
NumValues == 2
\* at most this many (adjacent) categorical columns are absent from the dataset
MaxMissing == 1
\* at most this many loops of the %%timeit cell
MaxTimeitLoops == 2

Rows == 1..NumRows

\* ------------------------------------------------------- values and inputs

\* np.nan, the missing value of a numeric column
NaN == -1

\* the raw labels data.target may hold
Labels == {">50K", "<=50K", ">50K."}

\* the raw values of a categorical column: category k is stored as 10 * k
RawValues == {10 * k : k \in 1..NumValues} \cup {NaN}

\* the class-0 probabilities (in percent) predict_proba may return; one run
\* of the model returns the same level for every row
ProbLevels == {30, 100}

cols_categorical ==
  << "workclass", "education", "marital-status", "occupation",
     "relationship", "race", "sex", "native-country" >>

\* the feature names a dataset may have, in the dataset's column order
FeatureUniverse == << "age" >> \o cols_categorical \o << "target" >>

Range(s) == {s[i] : i \in DOMAIN s}

RECURSIVE SelectNames(_, _)
\* [n for n in s if n in keep]
SelectNames(s, keep) ==
  IF s = << >> THEN << >>
  ELSE IF Head(s) \in keep
       THEN << Head(s) >> \o SelectNames(Tail(s), keep)
       ELSE SelectNames(Tail(s), keep)

\* the sets of categorical columns a dataset may lack
MissingChoices ==
  {{cols_categorical[i] : i \in {j \in DOMAIN cols_categorical : lo <= j /\ j < lo + k}} :
     lo \in DOMAIN cols_categorical, k \in 0..MaxMissing}

\* the feature_names of the datasets fetch_openml may return
FeatureNameChoices ==
  {SelectNames(FeatureUniverse, (Range(FeatureUniverse) \ miss) \ extra) :
     miss \in MissingChoices, extra \in {{}, {"target"}}}

Index(s, x) == CHOOSE i \in DOMAIN s : s[i] = x

\* the raw cell of column c in row r: the categorical columns hold the chosen
\* vector rotated by the column's position, the others a number
RawCell(c, r, catvals) ==
  IF c \in Range(cols_categorical)
  THEN catvals[((r + Index(cols_categorical, c)) % NumRows) + 1]
  ELSE 17 + r

\* ------------------------------------------------------------- data frames

EmptyFrame == [columns |-> << >>, col |-> [n \in {} |-> [r \in Rows |-> 0]]]

\* pd.DataFrame(data.data, columns=data.feature_names)
DataFrame(d) == [columns |-> d.feature_names, col |-> d.data]

\* frame[name] = vals
SetColumn(frame, name, vals) ==
  [columns |-> IF name \in Range(frame.columns) THEN frame.columns
               ELSE Append(frame.columns, name),
   col |-> [n \in DOMAIN frame.col \cup {name} |->
              IF n = name THEN vals ELSE frame.col[n]]]

\* frame.drop(columns=name)
DropColumn(frame, name) ==
  [columns |-> SelectNames(frame.columns, Range(frame.columns) \ {name}),
   col |-> [n \in DOMAIN frame.col \ {name} |-> frame.col[n]]]

\* a label comparison that also accepts the ">50K." spelling
TargetOfLoose(target) ==
  [r \in Rows |-> IF target[r] \in {">50K", ">50K."} THEN 1 ELSE 0]

\* data.target.eq(">50K").mul(1)
TargetOf(target) == [r \in Rows |-> IF target[r] = ">50K" THEN 1 ELSE 0]

\* OrdinalEncoder.fit_transform on one column: the sorted distinct values
\* are numbered from 0, a missing value stays missing
OrdinalCodes(vals) ==
  [r \in Rows |->
     IF vals[r] = NaN THEN NaN
     ELSE Cardinality({u \in Range(vals) \ {NaN} : u < vals[r]})]

\* ------------------------------------------------------------------- flags

\* cyclic_boosting.flags: a flag value is the set of its bits, | is union
IS_CONTINUOUS == {"IS_CONTINUOUS"}
IS_UNORDERED == {"IS_UNORDERED"}
HAS_MISSING == {"HAS_MISSING"}
MISSING_NOT_LEARNED == {"MISSING_NOT_LEARNED"}

CategoricalFlags == IS_UNORDERED \cup HAS_MISSING \cup MISSING_NOT_LEARNED
ContinuousFlags == IS_CONTINUOUS \cup HAS_MISSING \cup MISSING_NOT_LEARNED

\* the two comprehensions with their flags exchanged
FeaturePropertiesSwapped(cats, noncat) ==
  [c \in Range(cats) \cup Range(noncat) |->
     IF c \in Range(noncat) THEN CategoricalFlags ELSE ContinuousFlags]

\* {**{col: ... for col in cats}, **{col: ... for col in noncat}}
FeatureProperties(cats, noncat) ==
  [c \in Range(cats) \cup Range(noncat) |->
     IF c \in Range(noncat) THEN ContinuousFlags ELSE CategoricalFlags]

\* ------------------------------------------------------------------- cells

\* the notebook with the training cell moved below the inference cell
CellsFitLate ==
  << "formatter", "imports", "load", "split", "target", "show_cols",
     "show_columns", "assert", "def_prepare_data", "prepare_data", "show_y",
     "feature_properties", "def_model", "build", "predict_proba", "fit",
     "mad", "score", "def_plot_CB", "plot_CB", "pred", "hist" >>

\* the code cells of the notebook, top to bottom
Cells ==
  << "formatter", "imports", "load", "split", "target", "show_cols",
     "show_columns", "assert", "def_prepare_data", "prepare_data", "show_y",
     "feature_properties", "def_model", "build", "fit", "predict_proba",
     "mad", "score", "def_plot_CB", "plot_CB", "pred", "hist" >>

VARIABLES
  pc,                 \* index in Cells of the cell to run next
  error,              \* "none", or the exception that ended the run
  executed,           \* the cells that have completed, in order
  formatter,          \* "unset", "loaded" or "absent" (ImportError caught)
  data,               \* the Bunch returned by fetch_openml
  df,                 \* the data frame
  cols_noncat,        \* the list of non-categorical columns
  unused,             \* the set printed as "unused columns"
  X, y,               \* the results of prepare_data(df)
  features,           \* the list of features
  feature_properties, \* the mapping column name -> flags
  CB_est,             \* the pipeline object: its identity and completed fits
  yhat,               \* the class probabilities per row, in percent
  mad                 \* the mean absolute deviation, in percent

vars ==
  << pc, error, executed, formatter, data, df, cols_noncat, unused, X, y,
     features, feature_properties, CB_est, yhat, mad >>

NoData ==
  [feature_names |-> << >>,
   data |-> [n \in {} |-> [r \in Rows |-> 0]],
   target |-> [r \in Rows |-> ""]]

Init ==
  /\ pc = 1
  /\ error = "none"
  /\ executed = << >>
  /\ formatter = "unset"
  /\ data = NoData
  /\ df = EmptyFrame
  /\ cols_noncat = << >>
  /\ unused = {}
  /\ X = EmptyFrame
  /\ y = [r \in Rows |-> 0]
  /\ features = << >>
  /\ feature_properties = [c \in {} |-> {}]
  /\ CB_est = [id |-> 0, fits |-> 0]
  /\ yhat = [r \in Rows |-> << 0, 0 >>]
  /\ mad = 0

\* a run that goes on after a cell raised
AtCellIgnoringError(name) == pc \in DOMAIN Cells /\ Cells[pc] = name

\* the run is at cell `name`: every earlier cell completed, none raised
AtCell(name) == pc \in DOMAIN Cells /\ Cells[pc] = name /\ error = "none"

\* the cell ran to its end: the run goes on with the next cell
Complete ==
  /\ pc' = pc + 1
  /\ executed' = Append(executed, Cells[pc])
  /\ error' = error

\* the cell raised and nothing caught it: the run ends at this cell
Raise(exc) ==
  /\ pc' = pc
  /\ executed' = executed
  /\ error' = exc

\* ------------------------------------------------------------- operations

\* the comprehension without its filter
NonCategoricalAll(columns) == columns

\* [n for n in df.columns if n not in cols_categorical]
NonCategorical(columns) ==
  SelectNames(columns, Range(columns) \ Range(cols_categorical))

\* the assertion with the operands of the set difference exchanged
AssertionHoldsReversed(noncat, columns) ==
  Range(columns) \ Range(noncat \o cols_categorical) = {}

\* set(cols_noncat + cols_categorical) - set(df.columns) == set()
AssertionHolds(noncat, columns) ==
  Range(noncat \o cols_categorical) \ Range(columns) = {}

\* set(df.columns) - set(cols_noncat + cols_categorical)
UnusedColumns(noncat, columns) ==
  Range(columns) \ Range(noncat \o cols_categorical)

\* df[cols] = enc.fit_transform(df[cols])
EncodeColumns(frame, cols) ==
  [frame EXCEPT !.col =
     [n \in DOMAIN @ |-> IF n \in Range(cols) THEN OrdinalCodes(@[n]) ELSE @[n]]]

\* prepare_data encoding every column of the frame
prepare_data_all(frame) ==
  LET enc == EncodeColumns(frame, frame.columns)
  IN  [df |-> enc, X |-> DropColumn(enc, "target"), y |-> enc.col["target"]]

\* prepare_data(df): the frame as it is left, and the returned X and y
prepare_data(frame) ==
  LET enc == EncodeColumns(frame, cols_categorical)
  IN  [df |-> enc, X |-> DropColumn(enc, "target"), y |-> enc.col["target"]]

Abs(n) == IF n < 0 THEN -n ELSE n

RECURSIVE SumAbsDev(_, _, _)
\* sum over the first n rows of |y - yhat[:, 0]|, in percent
SumAbsDev(n, yy, probs) ==
  IF n = 0 THEN 0
  ELSE Abs(100 * yy[n] - probs[n][1]) + SumAbsDev(n - 1, yy, probs)

\* ------------------------------------------------------------------ actions

FormatterCell ==
  /\ AtCell("formatter")
  /\ \/ formatter' = "loaded" /\ Complete
     \/ formatter' = "absent" /\ Complete
     \/ formatter' = formatter /\ Raise("Exception")
  /\ UNCHANGED << data, df, cols_noncat, unused, X, y, features,
                  feature_properties, CB_est, yhat, mad >>

ImportsCell ==
  /\ AtCell("imports")
  /\ Complete \/ Raise("ImportError")
  /\ UNCHANGED << formatter, data, df, cols_noncat, unused, X, y, features,
                  feature_properties, CB_est, yhat, mad >>

LoadCell ==
  /\ AtCell("load")
  /\ \/ /\ \E names \in FeatureNameChoices, catvals \in [Rows -> RawValues],
              labels \in [Rows -> Labels] :
              LET d == [feature_names |-> names,
                        data |-> [c \in Range(names) |->
                                    [r \in Rows |-> RawCell(c, r, catvals)]],
                        target |-> labels]
              IN  data' = d /\ df' = DataFrame(d)
        /\ Complete
     \/ Raise("OSError") /\ UNCHANGED << data, df >>
  /\ UNCHANGED << formatter, cols_noncat, unused, X, y, features,
                  feature_properties, CB_est, yhat, mad >>

SplitCell ==
  /\ AtCell("split")
  /\ cols_noncat' = NonCategorical(df.columns)
  /\ Complete
  /\ UNCHANGED << formatter, data, df, unused, X, y, features,
                  feature_properties, CB_est, yhat, mad >>

TargetCell ==
  /\ AtCell("target")
  /\ df' = SetColumn(df, "target", TargetOf(data.target))
  /\ Complete
  /\ UNCHANGED << formatter, data, cols_noncat, unused, X, y, features,
                  feature_properties, CB_est, yhat, mad >>

ShowColsCell ==
  /\ AtCell("show_cols")
  /\ Complete
  /\ UNCHANGED << formatter, data, df, cols_noncat, unused, X, y, features,
                  feature_properties, CB_est, yhat, mad >>

ShowColumnsCell ==
  /\ AtCell("show_columns")
  /\ Complete
  /\ UNCHANGED << formatter, data, df, cols_noncat, unused, X, y, features,
                  feature_properties, CB_est, yhat, mad >>

AssertCell ==
  /\ AtCell("assert")
  /\ IF AssertionHolds(cols_noncat, df.columns)
     THEN unused' = UnusedColumns(cols_noncat, df.columns) /\ Complete
     ELSE unused' = unused /\ Raise("AssertionError")
  /\ UNCHANGED << formatter, data, df, cols_noncat, X, y, features,
                  feature_properties, CB_est, yhat, mad >>

DefPrepareDataCell ==
  /\ AtCell("def_prepare_data")
  /\ Complete
  /\ UNCHANGED << formatter, data, df, cols_noncat, unused, X, y, features,
                  feature_properties, CB_est, yhat, mad >>

PrepareDataCell ==
  /\ AtCell("prepare_data")
  /\ IF Range(cols_categorical) \cup {"target"} \subseteq Range(df.columns)
     THEN \/ LET res == prepare_data(df)
             IN  df' = res.df /\ X' = res.X /\ y' = res.y /\ Complete
          \/ Raise("ValueError") /\ UNCHANGED << df, X, y >>
     ELSE Raise("KeyError") /\ UNCHANGED << df, X, y >>
  /\ UNCHANGED << formatter, data, cols_noncat, unused, features,
                  feature_properties, CB_est, yhat, mad >>

ShowYCell ==
  /\ AtCell("show_y")
  /\ Complete
  /\ UNCHANGED << formatter, data, df, cols_noncat, unused, X, y, features,
                  feature_properties, CB_est, yhat, mad >>

FeaturePropertiesCell ==
  /\ AtCell("feature_properties")
  /\ features' = cols_categorical \o cols_noncat
  /\ feature_properties' = FeatureProperties(cols_categorical, cols_noncat)
  /\ Complete
  /\ UNCHANGED << formatter, data, df, cols_noncat, unused, X, y, CB_est,
                  yhat, mad >>

DefModelCell ==
  /\ AtCell("def_model")
  /\ Complete
  /\ UNCHANGED << formatter, data, df, cols_noncat, unused, X, y, features,
                  feature_properties, CB_est, yhat, mad >>

BuildCell ==
  /\ AtCell("build")
  /\ \/ CB_est' = [id |-> CB_est.id + 1, fits |-> 0] /\ Complete
     \/ CB_est' = CB_est /\ Raise("ValueError")
  /\ UNCHANGED << formatter, data, df, cols_noncat, unused, X, y, features,
                  feature_properties, yhat, mad >>

FitCell ==
  /\ AtCell("fit")
  /\ \/ /\ \E loops \in 1..MaxTimeitLoops :
              CB_est' = [CB_est EXCEPT !.fits = @ + loops]
        /\ Complete
     \/ CB_est' = CB_est /\ Raise("ValueError")
  /\ UNCHANGED << formatter, data, df, cols_noncat, unused, X, y, features,
                  feature_properties, yhat, mad >>

PredictProbaCell ==
  /\ AtCell("predict_proba")
  /\ \/ /\ \E p \in ProbLevels : yhat' = [r \in Rows |-> << p, 100 - p >>]
        /\ Complete
     \/ yhat' = yhat /\ Raise("ValueError")
  /\ UNCHANGED << formatter, data, df, cols_noncat, unused, X, y, features,
                  feature_properties, CB_est, mad >>

MadCell ==
  /\ AtCell("mad")
  /\ mad' = SumAbsDev(NumRows, y, yhat) \div NumRows
  /\ Complete
  /\ UNCHANGED << formatter, data, df, cols_noncat, unused, X, y, features,
                  feature_properties, CB_est, yhat >>

ScoreCell ==
  /\ AtCell("score")
  /\ Complete \/ Raise("ValueError")
  /\ UNCHANGED << formatter, data, df, cols_noncat, unused, X, y, features,
                  feature_properties, CB_est, yhat, mad >>

DefPlotCBCell ==
  /\ AtCell("def_plot_CB")
  /\ Complete
  /\ UNCHANGED << formatter, data, df, cols_noncat, unused, X, y, features,
                  feature_properties, CB_est, yhat, mad >>

PlotCBCell ==
  /\ AtCell("plot_CB")
  /\ Complete \/ Raise("ValueError")
  /\ UNCHANGED << formatter, data, df, cols_noncat, unused, X, y, features,
                  feature_properties, CB_est, yhat, mad >>

PredCell ==
  /\ AtCell("pred")
  /\ df' = SetColumn(df, "pred", [r \in Rows |-> yhat[r][1]])
  /\ Complete
  /\ UNCHANGED << formatter, data, cols_noncat, unused, X, y, features,
                  feature_properties, CB_est, yhat, mad >>

HistCell ==
  /\ AtCell("hist")
  /\ Complete \/ Raise("ValueError")
  /\ UNCHANGED << formatter, data, df, cols_noncat, unused, X, y, features,
                  feature_properties, CB_est, yhat, mad >>

Next ==
  \/ FormatterCell
  \/ ImportsCell
  \/ LoadCell
  \/ SplitCell
  \/ TargetCell
  \/ ShowColsCell
  \/ ShowColumnsCell
  \/ AssertCell
  \/ DefPrepareDataCell
  \/ PrepareDataCell
  \/ ShowYCell
  \/ FeaturePropertiesCell
  \/ DefModelCell
  \/ BuildCell
  \/ FitCell
  \/ PredictProbaCell
  \/ MadCell
  \/ ScoreCell
  \/ DefPlotCBCell
  \/ PlotCBCell
  \/ PredCell
  \/ HistCell

Spec == Init /\ [][Next]_vars

\* ------------------------------------------------------------------ claims

Ran(cell) == \E i \in DOMAIN executed : executed[i] = cell

AllCategoricalLoaded == Range(cols_categorical) \subseteq Range(data.feature_names)

\* C1: once the target cell has run, df's target column is 1 in exactly the
\* rows whose raw label is ">50K" and 0 in the others; once prepare_data has
\* run, y holds the same values, so every entry is 0 or 1.
C1_TargetIsIndicator ==
  /\ Ran("target") =>
       \A r \in Rows :
         /\ df.col["target"][r] \in {0, 1}
         /\ df.col["target"][r] = 1 <=> data.target[r] = ">50K"
  /\ Ran("prepare_data") =>
       \A r \in Rows :
         /\ y[r] \in {0, 1}
         /\ y[r] = 1 <=> data.target[r] = ">50K"

C1_Witness ==
  /\ Ran("prepare_data")
  /\ \E r \in Rows : data.target[r] = ">50K" /\ y[r] = 1
  /\ \E r \in Rows : data.target[r] = ">50K." /\ y[r] = 0

\* C2: after the column-split cell, when the loaded dataset has every column
\* named in cols_categorical, cols_categorical and cols_noncat share no name
\* and together hold exactly the columns df had when the split was computed.
C2_SplitPartitionsColumns ==
  (Ran("split") /\ AllCategoricalLoaded) =>
    /\ Range(cols_categorical) \cap Range(cols_noncat) = {}
    /\ Range(cols_categorical) \cup Range(cols_noncat) = Range(data.feature_names)
    /\ Len(cols_noncat) = Cardinality(Range(cols_noncat))

C2_Witness ==
  /\ Ran("split")
  /\ AllCategoricalLoaded
  /\ Len(cols_noncat) = 2

\* C3: after the feature-properties cell, features is cols_categorical followed
\* by cols_noncat without duplicates, feature_properties has exactly the
\* features as keys, a categorical column maps to IS_UNORDERED | HAS_MISSING |
\* MISSING_NOT_LEARNED, a non-categorical one to IS_CONTINUOUS | HAS_MISSING |
\* MISSING_NOT_LEARNED, and no feature has both IS_UNORDERED and IS_CONTINUOUS.
C3_FeatureProperties ==
  Ran("feature_properties") =>
    /\ features = cols_categorical \o cols_noncat
    /\ Len(features) = Cardinality(Range(features))
    /\ DOMAIN feature_properties = Range(features)
    /\ \A c \in Range(cols_categorical) :
         feature_properties[c] = {"IS_UNORDERED", "HAS_MISSING", "MISSING_NOT_LEARNED"}
    /\ \A c \in Range(cols_noncat) :
         feature_properties[c] = {"IS_CONTINUOUS", "HAS_MISSING", "MISSING_NOT_LEARNED"}
    /\ \A c \in Range(features) :
         ~ ({"IS_UNORDERED", "IS_CONTINUOUS"} \subseteq feature_properties[c])

C3_Witness ==
  /\ Ran("feature_properties")
  /\ Len(cols_noncat) = 2
  /\ Len(features) = Len(cols_categorical) + 2

\* C4: the step that runs prepare_data(df) returns X with exactly df's columns
\* other than "target" (holding df's values) and y equal to df's target column
\* row by row; it keeps df's column list, its rows, its non-categorical
\* columns and its target column, and replaces each categorical column by its
\* ordinal codes (missing stays missing, the codes number the distinct values
\* in their order from 0).
C4_PrepareDataFrame ==
  [][(pc \in DOMAIN Cells /\ Cells[pc] = "prepare_data" /\ pc' = pc + 1) =>
       /\ Range(X'.columns) = Range(df'.columns) \ {"target"}
       /\ Len(X'.columns) = Cardinality(Range(X'.columns))
       /\ DOMAIN X'.col = Range(X'.columns)
       /\ \A c \in Range(X'.columns) : X'.col[c] = df'.col[c]
       /\ y' = df'.col["target"]
       /\ y' = df.col["target"]
       /\ df'.columns = df.columns
       /\ DOMAIN df'.col = DOMAIN df.col
       /\ \A c \in DOMAIN df.col : DOMAIN df'.col[c] = DOMAIN df.col[c]
       /\ \A c \in DOMAIN df.col \ Range(cols_categorical) : df'.col[c] = df.col[c]
       /\ \A c \in Range(cols_categorical) :
            LET raw == df.col[c]
                codes == df'.col[c]
                present == {r \in Rows : raw[r] # NaN}
            IN  /\ \A r \in Rows : raw[r] = NaN <=> codes[r] = NaN
                /\ {codes[r] : r \in present} =
                     0..(Cardinality({raw[r] : r \in present}) - 1)
                /\ \A r, s \in present : raw[r] < raw[s] <=> codes[r] < codes[s]
    ]_vars

C4_Witness ==
  /\ Ran("prepare_data")
  /\ "age" \in Range(X.columns)
  /\ "target" \notin Range(X.columns)
  /\ \E c \in Range(cols_categorical) :
       \E r, s \in Rows : df.col[c][r] = 0 /\ df.col[c][s] = 1

\* the steps C5 names, in the order it gives them
ClaimedOrder ==
  << "load", "split", "target", "prepare_data", "build", "fit",
     "predict_proba", "score", "plot_CB" >>

\* C5: the named steps complete in the order loading, split, target, encoding,
\* pipeline construction, fit, predict_proba, score, plotting, and whenever
\* predict_proba, score or plot_CB is about to run or has run, a fit of the
\* pipeline object CB_est has completed.
C5_StepsInOrder ==
  /\ \A j \in 2..Len(ClaimedOrder) :
       \A b \in DOMAIN executed :
         executed[b] = ClaimedOrder[j] =>
           \E a \in 1..(b - 1) : executed[a] = ClaimedOrder[j - 1]
  /\ \A c \in {"predict_proba", "score", "plot_CB"} :
       (Ran(c) \/ (pc \in DOMAIN Cells /\ Cells[pc] = c)) =>
         /\ Ran("fit")
         /\ CB_est.id = 1
         /\ CB_est.fits >= 1

C5_Witness ==
  /\ Ran("plot_CB")
  /\ Ran("score")
  /\ CB_est.fits >= 1

\* C6: a step is only ever taken from a state without error; a step that
\* raises leaves the run at that cell with no further cell completed; the
\* ImportError of the formatter import is the one failure after which the run
\* goes on (formatter absent, next cell, no error).
C6_OnlyImportErrorCaught ==
  [][/\ error = "none"
     /\ error' # "none" => (pc' = pc /\ executed' = executed)
     /\ error' = "none" => (pc' = pc + 1 /\ executed' = Append(executed, Cells[pc]))
     /\ (formatter = "unset" /\ formatter' = "absent") =>
          (Cells[pc] = "formatter" /\ error' = "none" /\ pc' = pc + 1)
    ]_vars

C6_Witness ==
  /\ formatter = "absent"
  /\ error = "AssertionError"
  /\ Cells[pc] = "assert"
  /\ ~ Ran("assert")

\* C7 as stated: the assertion holds exactly when every name of
\* cols_categorical is a column of the loaded dataset, and when it holds the
\* printed set of unused columns is {"target"}.
C7_UnusedIsTarget ==
  /\ error = "AssertionError" => ~ AllCategoricalLoaded
  /\ Ran("assert") => (AllCategoricalLoaded /\ unused = {"target"})

\* C7 amended: the assertion holds exactly when every name of cols_categorical
\* is a column of the loaded dataset, and when it holds the printed set of
\* unused columns is {"target"} unless the loaded dataset itself has a column
\* named "target", in which case it is empty.
C7_UnusedIsTargetUnlessLoaded ==
  /\ error = "AssertionError" => ~ AllCategoricalLoaded
  /\ Ran("assert") =>
       /\ AllCategoricalLoaded
       /\ unused = IF "target" \in Range(data.feature_names) THEN {} ELSE {"target"}

C7_Witness ==
  /\ Ran("assert")
  /\ "target" \notin Range(data.feature_names)
  /\ unused = {"target"}

====
